---------------------------- MODULE Spec2Model ----------------------------
(***************************************************************************)
(* The FPL bills dashboard (fpl_streamlit_app.py) as a state machine.      *)
(*                                                                         *)
(* The script is re-executed top to bottom on every user interaction; the  *)
(* program counter pc follows one execution through its blocks.  The only  *)
(* state that survives an execution is the st.cache_data entry of          *)
(* load_fpl_data and the year picker's widget value.  The CSV behind the   *)
(* URL is the environment (remote).                                        *)
(*                                                                         *)
(* Numbers are float64 in the program.  The model keeps the IEEE special   *)
(* values (+inf, -inf, NaN) and represents every finite value as an exact  *)
(* fraction n/d in lowest terms, so rounding is abstracted away and        *)
(* nothing else is.                                                        *)
(***************************************************************************)
EXTENDS Integers, Sequences, FiniteSets, TLC

(***************************************************************************)
(* Bound of the model: the number of data rows of a CSV file.              *)
(***************************************************************************)
MaxRows == 3

(***************************************************************************)
(* float64 values.                                                         *)
(***************************************************************************)
RECURSIVE GCD(_, _)
GCD(a, b) == IF b = 0 THEN a ELSE GCD(b, a % b)

Abs(x) == IF x < 0 THEN -x ELSE x

\* The finite value n/d (d > 0) in lowest terms.
Fin(n, d) ==
    LET g == GCD(Abs(n), d)
    IN  [k |-> "fin", n |-> n \div g, d |-> d \div g]

NaN  == [k |-> "nan",  n |-> 0, d |-> 1]
PInf == [k |-> "pinf", n |-> 0, d |-> 1]
NInf == [k |-> "ninf", n |-> 0, d |-> 1]
Zero == Fin(0, 1)

IsNaN(x) == x.k = "nan"
IsFin(x) == x.k = "fin"

\* IEEE 754 addition.
FAdd(a, b) ==
    IF IsNaN(a) \/ IsNaN(b) THEN NaN
    ELSE IF IsFin(a) /\ IsFin(b) THEN Fin(a.n * b.d + b.n * a.d, a.d * b.d)
    ELSE IF IsFin(a) THEN b
    ELSE IF IsFin(b) THEN a
    ELSE IF a.k = b.k THEN a
    ELSE NaN

\* IEEE 754 division as pandas performs it on a numeric column: no exception
\* is raised for a zero divisor; x/0 is +inf or -inf by the sign of x and 0/0
\* is NaN.
FDiv(a, b) ==
    IF IsNaN(a) \/ IsNaN(b) THEN NaN
    ELSE IF IsFin(a) /\ IsFin(b) THEN
        IF b.n = 0
        THEN (IF a.n = 0 THEN NaN ELSE IF a.n > 0 THEN PInf ELSE NInf)
        ELSE IF b.n > 0 THEN Fin(a.n * b.d, a.d * b.n)
        ELSE Fin(-(a.n * b.d), a.d * (-b.n))
    ELSE IF IsFin(b) THEN
        (IF (a.k = "pinf") = (b.n >= 0) THEN PInf ELSE NInf)
    ELSE IF IsFin(a) THEN Zero
    ELSE NaN

\* Series.sum(): skipna=True, the sum of no values is 0.
RECURSIVE SumSkipNa(_)
SumSkipNa(s) ==
    IF s = <<>> THEN Zero
    ELSE IF IsNaN(Head(s)) THEN SumSkipNa(Tail(s))
    ELSE FAdd(Head(s), SumSkipNa(Tail(s)))

RECURSIVE CountNotNa(_)
CountNotNa(s) ==
    IF s = <<>> THEN 0
    ELSE (IF IsNaN(Head(s)) THEN 0 ELSE 1) + CountNotNa(Tail(s))

\* MeanSkipNa with the mean of no values taken to be 0 (the sum over max(count, 1)).
MeanOfNoneIsZero(s) ==
    IF CountNotNa(s) = 0 THEN Zero
    ELSE FDiv(SumSkipNa(s), Fin(CountNotNa(s), 1))

\* Series.mean(): skipna=True, the mean of no values is NaN.
MeanSkipNa(s) ==
    IF CountNotNa(s) = 0 THEN NaN
    ELSE FDiv(SumSkipNa(s), Fin(CountNotNa(s), 1))


(***************************************************************************)
(* The CSV file behind the URL.  A cell is text; the model keeps the       *)
(* structure of the text that parsing looks at: a date cell is blank or    *)
(* year-month-day digits (which may name no calendar day); a numeric cell  *)
(* is blank, text that is no number, or a signed decimal with two          *)
(* fraction digits.                                                        *)
(***************************************************************************)
DateText(y, m, d) == [t |-> "ymd", y |-> y, m |-> m, d |-> d]
BlankDate == [t |-> "blank", y |-> 0, m |-> 0, d |-> 0]

NumText(units, cents) == [t |-> "dec", neg |-> FALSE, units |-> units, cents |-> cents]
NegText(units, cents) == [t |-> "dec", neg |-> TRUE, units |-> units, cents |-> cents]
BlankNum == [t |-> "blank", neg |-> FALSE, units |-> 0, cents |-> 0]
JunkNum  == [t |-> "junk", neg |-> FALSE, units |-> 0, cents |-> 0]

Row(date, kwh, total) == [Date |-> date, kWh |-> kwh, Total |-> total]

\* The rows a file is made of.
RowSet ==
    { Row(DateText(2024, 1, 15), NumText(500, 0), NumText(75, 0)),
      Row(DateText(2024, 2, 15), NumText(600, 0), NumText(90, 0)),
      Row(DateText(2023, 12, 15), NumText(400, 0), NumText(50, 0)),
      Row(DateText(2024, 3, 15), NumText(0, 0), NumText(10, 0)),
      Row(DateText(2023, 6, 15), NumText(0, 0), NumText(0, 0)),
      Row(DateText(2023, 11, 15), NumText(200, 0), NegText(5, 0)),
      Row(BlankDate, NumText(300, 0), NumText(30, 0)),
      Row(DateText(2024, 4, 15), BlankNum, NumText(20, 50)),
      Row(DateText(2024, 2, 30), NumText(100, 0), NumText(10, 0)),
      Row(DateText(2024, 5, 15), JunkNum, NumText(10, 0)) }

AllColumns == {"Date", "kWh", "Total"}

\* The headers a file may have: all three columns, or one of them missing.
HeaderSet == {AllColumns} \cup {AllColumns \ {c} : c \in AllColumns}

RowSeqs == UNION {[1..n -> RowSet] : n \in 0..MaxRows}

Blobs == [cols : HeaderSet, rows : RowSeqs]

(***************************************************************************)
(* pd.read_csv: type inference is per column.  A blank cell is a missing   *)
(* value (NaN).  A column whose non-blank cells are all numbers is a       *)
(* numeric column; one cell that is no number makes the whole column an    *)
(* object column, whose non-blank cells stay strings.                      *)
(***************************************************************************)
Str == [k |-> "str", n |-> 0, d |-> 1]

ParseFloat(c) ==
    LET hundredths == c.units * 100 + c.cents
    IN  Fin(IF c.neg THEN -hundredths ELSE hundredths, 100)

ReadNumColumn(cells) ==
    IF \E i \in DOMAIN cells : cells[i].t = "junk"
    THEN [i \in DOMAIN cells |-> IF cells[i].t = "blank" THEN NaN ELSE Str]
    ELSE [i \in DOMAIN cells |-> IF cells[i].t = "blank" THEN NaN ELSE ParseFloat(cells[i])]

(***************************************************************************)
(* pd.to_datetime (errors='raise'): a missing value becomes NaT, text      *)
(* that names a calendar day becomes a Timestamp, any other text raises.   *)
(***************************************************************************)
NaT == [k |-> "nat", y |-> 0, m |-> 0, d |-> 0]
Timestamp(y, m, d) == [k |-> "ts", y |-> y, m |-> m, d |-> d]

IsLeap(y) == (y % 4 = 0 /\ y % 100 # 0) \/ y % 400 = 0

DaysInMonth(y, m) ==
    IF m = 2 THEN (IF IsLeap(y) THEN 29 ELSE 28)
    ELSE IF m \in {4, 6, 9, 11} THEN 30 ELSE 31

DateRaises(c) ==
    /\ c.t = "ymd"
    /\ ~(c.m \in 1..12 /\ c.d >= 1 /\ c.d <= DaysInMonth(c.y, c.m))

ToDatetime(c) == IF c.t = "blank" THEN NaT ELSE Timestamp(c.y, c.m, c.d)

(***************************************************************************)
(* The .dt accessors.  On NaT .dt.year and .dt.month are NaN and           *)
(* .dt.strftime is a missing value.                                        *)
(***************************************************************************)
IntVal(v) == [k |-> "int", v |-> v]
NaNVal == [k |-> "nan", v |-> 0]
NoneVal == [k |-> "none", v |-> 0]

MonthNames ==
    << "January", "February", "March", "April", "May", "June",
       "July", "August", "September", "October", "November", "December" >>

DtYear(ts) == IF ts.k = "nat" THEN NaNVal ELSE IntVal(ts.y)
DtMonth(ts) == IF ts.k = "nat" THEN NaNVal ELSE IntVal(ts.m)
DtMonthName(ts) == IF ts.k = "nat" THEN "NaN" ELSE MonthNames[ts.m]

(***************************************************************************)
(* load_fpl_data's body.  A DataFrame is [ok |-> TRUE, rows |-> records];  *)
(* None is [ok |-> FALSE, rows |-> <<>>].  idx is the row's index label,   *)
(* which filtering and sorting carry along (1-based here).                 *)
(***************************************************************************)
None == [ok |-> FALSE, rows |-> <<>>]

Frame(rows) == [ok |-> TRUE, rows |-> rows]

\* Line 37: Series / Series, element by element.
UnitCost(total, kwh) == FDiv(total, kwh)

Derive(i, date, kwh, total) ==
    [ idx        |-> i,
      Date       |-> date,
      kWh        |-> kwh,
      Total      |-> total,
      Unit_Cost  |-> UnitCost(total, kwh),
      Year       |-> DtYear(date),
      Month      |-> DtMonth(date),
      Month_Name |-> DtMonthName(date) ]

\* Every exception of lines 26-44 is caught at line 46 and None is returned.
LoadBody(r) ==
    IF ~r.ok THEN None                                   \* requests.get / raise_for_status
    ELSE IF "Date" \notin r.blob.cols THEN None          \* KeyError, line 34
    ELSE IF \E i \in DOMAIN r.blob.rows : DateRaises(r.blob.rows[i].Date)
         THEN None                                       \* to_datetime raises, line 34
    ELSE IF ~({"Total", "kWh"} \subseteq r.blob.cols) THEN None   \* KeyError, line 37
    ELSE LET rows  == r.blob.rows
             kwh   == ReadNumColumn([i \in DOMAIN rows |-> rows[i].kWh])
             total == ReadNumColumn([i \in DOMAIN rows |-> rows[i].Total])
         IN  IF \E i \in DOMAIN rows : kwh[i] = Str \/ total[i] = Str
             THEN None                                   \* TypeError, line 37
             ELSE Frame([i \in DOMAIN rows |->
                           Derive(i, ToDatetime(rows[i].Date), kwh[i], total[i])])

(***************************************************************************)
(* Line 58: sorted(df['Year'].unique()).                                   *)
(*                                                                         *)
(* Series.unique() keeps the values in order of first appearance and       *)
(* keeps one NaN.  sorted() is list.sort on a new list: for fewer than 64  *)
(* elements it takes the leading run (reversing it when strictly           *)
(* descending) and inserts the remaining elements by binary search, with   *)
(* `<` as its only comparison; `<` is false whenever an operand is NaN.    *)
(***************************************************************************)
SameValue(a, b) == a = b

RECURSIVE Unique(_)
Unique(s) ==
    IF s = <<>> THEN <<>>
    ELSE LET front == Unique(SubSeq(s, 1, Len(s) - 1))
             last  == s[Len(s)]
         IN  IF \E i \in DOMAIN front : SameValue(front[i], last)
             THEN front
             ELSE Append(front, last)

Lt(a, b) == a.k = "int" /\ b.k = "int" /\ a.v < b.v

Reverse(s) == [i \in 1..Len(s) |-> s[Len(s) + 1 - i]]

\* Length of the run that starts the list, descending runs being strict.
RECURSIVE RunEnd(_, _, _)
RunEnd(s, i, descending) ==
    IF i > Len(s) THEN Len(s)
    ELSE IF Lt(s[i], s[i - 1]) = descending THEN RunEnd(s, i + 1, descending)
    ELSE i - 1

\* Where the pivot goes among the sorted s[1..r]: after every element it is
\* not less than (l and r are 0-based bounds, as in listobject.c).
RECURSIVE BinarySearch(_, _, _, _)
BinarySearch(s, pivot, l, r) ==
    IF l >= r THEN l
    ELSE LET p == l + ((r - l) \div 2)
         IN  IF Lt(pivot, s[p + 1])
             THEN BinarySearch(s, pivot, l, p)
             ELSE BinarySearch(s, pivot, p + 1, r)

RECURSIVE BinarySort(_, _)
BinarySort(s, start) ==
    IF start > Len(s) THEN s
    ELSE LET pivot == s[start]
             pos   == BinarySearch(s, pivot, 0, start - 1)
         IN  BinarySort(SubSeq(s, 1, pos) \o <<pivot>> \o SubSeq(s, pos + 1, start - 1)
                          \o SubSeq(s, start + 1, Len(s)),
                        start + 1)

Sorted(s) ==
    IF Len(s) < 2 THEN s
    ELSE LET descending == Lt(s[2], s[1])
             n          == RunEnd(s, 3, descending)
             run        == IF descending
                           THEN Reverse(SubSeq(s, 1, n)) \o SubSeq(s, n + 1, Len(s))
                           ELSE s
         IN  BinarySort(run, n + 1)

AvailableYears(frame) ==
    Sorted(Unique([i \in DOMAIN frame.rows |-> frame.rows[i].Year]))

(***************************************************************************)
(* Lines 59-63: st.sidebar.selectbox.  It returns the option the user      *)
(* picked, the option at `index` when the user picked none, and None when  *)
(* there are no options.  pick = 0 stands for "the user picked none".      *)
(***************************************************************************)
Selectbox(options, pick) ==
    IF options = <<>> THEN NoneVal
    ELSE IF pick \in 1..Len(options) THEN options[pick]
    ELSE options[Len(options)]

(***************************************************************************)
(* Lines 66-67: the boolean mask df['Year'] == selected_year (false for a  *)
(* NaN on either side and for None), .copy(), and sort_values('Date').     *)
(***************************************************************************)
YearEquals(year, selected) == year.k = "int" /\ selected.k = "int" /\ year.v = selected.v

\* SelectRows with the mask left out: every row is kept.
SelectRowsAll(rows, selected) == rows

RECURSIVE SelectRows(_, _)
SelectRows(rows, selected) ==
    IF rows = <<>> THEN <<>>
    ELSE LET rest == SelectRows(Tail(rows), selected)
         IN  IF YearEquals(Head(rows).Year, selected) THEN <<Head(rows)>> \o rest ELSE rest

\* NaT orders after every Timestamp (na_position='last').
DateLeq(a, b) ==
    IF b.k = "nat" THEN TRUE
    ELSE IF a.k = "nat" THEN FALSE
    ELSE \/ a.y < b.y
         \/ a.y = b.y /\ a.m < b.m
         \/ a.y = b.y /\ a.m = b.m /\ a.d <= b.d

IsSortedByDate(rows) ==
    \A i \in 1..(Len(rows) - 1) : DateLeq(rows[i].Date, rows[i + 1].Date)

IndexOrders(n) == {f \in [1..n -> 1..n] : \A i, j \in 1..n : f[i] = f[j] => i = j}

\* SortValues with the sort left out: the rows stay in frame order.
SortValuesKeepOrder(rows) == {rows}

\* sort_values uses quicksort, which is not stable: rows of equal Date may
\* come out in any order.  The set of the frames it may return.
SortValues(rows) ==
    { [i \in 1..Len(rows) |-> rows[f[i]]] : f \in
        {g \in IndexOrders(Len(rows)) : IsSortedByDate([i \in 1..Len(rows) |-> rows[g[i]]])} }

Column(rows, name) == [i \in DOMAIN rows |-> rows[i][name]]

(***************************************************************************)
(* Lines 153-156: the table shown for the year, formatted on a copy.       *)
(***************************************************************************)
Pow10(digits) == IF digits = 2 THEN 100 ELSE 10000

\* f"${x:.2f}" and f"${x:.4f}": the decimal text of x rounded to `digits`
\* fraction digits (half to even), "$inf", "$-inf" or "$nan".
FormatMoney(x, digits) ==
    IF ~IsFin(x) THEN [t |-> x.k, neg |-> FALSE, scaled |-> 0, digits |-> digits]
    ELSE LET num  == Abs(x.n) * Pow10(digits)
             q    == num \div x.d
             rem  == num % x.d
             up   == 2 * rem > x.d \/ (2 * rem = x.d /\ q % 2 = 1)
         IN  [t |-> "dec", neg |-> x.n < 0, scaled |-> IF up THEN q + 1 ELSE q,
              digits |-> digits]

\* .dt.strftime('%Y-%m-%d').
FormatDate(ts) == IF ts.k = "nat" THEN BlankDate ELSE DateText(ts.y, ts.m, ts.d)

DisplayRow(r) ==
    [ idx       |-> r.idx,
      Date      |-> FormatDate(r.Date),
      kWh       |-> r.kWh,
      Total     |-> FormatMoney(r.Total, 2),
      Unit_Cost |-> FormatMoney(r.Unit_Cost, 4) ]

DisplayDf(rows) == [i \in DOMAIN rows |-> DisplayRow(rows[i])]

\* AfterDisplayWrites without the copies: the formatted Total lands in the
\* rows of the frame the table was taken from.
DisplayWritesThrough(frame, shown) ==
    [frame EXCEPT !.rows =
        [i \in DOMAIN frame.rows |->
            IF \E j \in DOMAIN shown : shown[j].idx = i
            THEN [frame.rows[i] EXCEPT !.Total = Str]
            ELSE frame.rows[i]]]

\* The frame a formatted copy was taken from, after lines 154-156 assigned
\* the formatted columns: .copy() at line 153 (and at line 66) makes the
\* assignments land in the copy only.
AfterDisplayWrites(frame, shown) == frame

(***************************************************************************)
(* Lines 165-169: df.groupby('Year').agg(sum, sum, mean).reset_index().    *)
(* Rows whose key is NaN are dropped (dropna=True) and the groups come     *)
(* out in ascending key order (sort=True).                                 *)
(***************************************************************************)
GroupKeys(rows) == {rows[i].Year.v : i \in {j \in DOMAIN rows : rows[j].Year.k = "int"}}

RECURSIVE Ascending(_)
Ascending(S) ==
    IF S = {} THEN <<>>
    ELSE LET m == CHOOSE x \in S : \A y \in S : x <= y
         IN  <<m>> \o Ascending(S \ {m})

SummaryRow(rows, year) ==
    LET group == SelectRows(rows, IntVal(year))
    IN  [ Year      |-> year,
          kWh       |-> SumSkipNa(Column(group, "kWh")),
          Total     |-> SumSkipNa(Column(group, "Total")),
          Unit_Cost |-> MeanSkipNa(Column(group, "Unit_Cost")) ]

\* AnnualSummary with the groups in descending key order.
AnnualSummaryDescending(rows) ==
    LET keys == Reverse(Ascending(GroupKeys(rows)))
    IN  [i \in DOMAIN keys |-> SummaryRow(rows, keys[i])]

AnnualSummary(rows) ==
    LET keys == Ascending(GroupKeys(rows))
    IN  [i \in DOMAIN keys |-> SummaryRow(rows, keys[i])]

(***************************************************************************)
(* The state.                                                              *)
(***************************************************************************)
VARIABLES
    remote,           \* the environment: whether the GET succeeds, and the CSV it returns
    cache,            \* st.cache_data's entry for load_fpl_data()
    pick,             \* the year picker's widget value (0: the user picked none)
    pc,               \* where the current execution of the script is
    df,               \* line 52
    available_years,  \* line 58
    selected_year,    \* line 59
    year_df,          \* lines 66-67
    total_kwh,        \* line 71
    total_cost,       \* line 72
    avg_unit_cost,    \* line 73
    num_bills,        \* line 74
    display_df,       \* lines 153-156
    annual_summary,   \* lines 165-169
    page              \* what the execution rendered: "", "charts", "warning" or "error"

vars == << remote, cache, pick, pc, df, available_years, selected_year, year_df,
           total_kwh, total_cost, avg_unit_cost, num_bills, display_df,
           annual_summary, page >>

NoEntry == [has |-> FALSE, val |-> None]
NotMade == [made |-> FALSE, rows |-> <<>>]

\* The names of one execution, before the script assigns them.
Unassigned ==
    /\ df = None
    /\ available_years = <<>>
    /\ selected_year = NoneVal
    /\ year_df = <<>>
    /\ total_kwh = Zero
    /\ total_cost = Zero
    /\ avg_unit_cost = NaN
    /\ num_bills = 0
    /\ display_df = <<>>
    /\ annual_summary = NotMade
    /\ page = ""

Init ==
    /\ remote \in [ok : BOOLEAN, blob : Blobs]
    /\ cache = NoEntry
    /\ pick = 0
    /\ pc = "start"
    /\ Unassigned

(***************************************************************************)
(* Line 22: @st.cache_data.  load_fpl_data takes no argument, so there is  *)
(* one entry, without ttl: the body runs when there is no entry, and its   *)
(* return value (a DataFrame or None) is stored and returned to every      *)
(* later call.                                                             *)
(***************************************************************************)
CacheData(entry, r) == IF entry.has THEN entry.val ELSE LoadBody(r)

\* Lines 22-52.
Load ==
    /\ pc = "start"
    /\ df' = CacheData(cache, remote)
    /\ cache' = [has |-> TRUE, val |-> CacheData(cache, remote)]
    /\ pc' = "loaded"
    /\ UNCHANGED << remote, pick, available_years, selected_year, year_df, total_kwh,
                    total_cost, avg_unit_cost, num_bills, display_df, annual_summary,
                    page >>

\* Lines 204-205.
LoadFailed ==
    /\ pc = "loaded"
    /\ ~df.ok
    /\ page' = "error"
    /\ pc' = "done"
    /\ UNCHANGED << remote, cache, pick, df, available_years, selected_year, year_df,
                    total_kwh, total_cost, avg_unit_cost, num_bills, display_df,
                    annual_summary >>

\* Lines 54-67.
SelectYear ==
    /\ pc = "loaded"
    /\ df.ok
    /\ available_years' = AvailableYears(df)
    /\ selected_year' = Selectbox(available_years', pick)
    /\ year_df' \in SortValues(SelectRows(df.rows, selected_year'))
    /\ pc' = "selected"
    /\ UNCHANGED << remote, cache, pick, df, total_kwh, total_cost, avg_unit_cost,
                    num_bills, display_df, annual_summary, page >>

\* Lines 69-79.
YearSummary ==
    /\ pc = "selected"
    /\ total_kwh' = SumSkipNa(Column(year_df, "kWh"))
    /\ total_cost' = SumSkipNa(Column(year_df, "Total"))
    /\ avg_unit_cost' = MeanSkipNa(Column(year_df, "Unit_Cost"))
    /\ num_bills' = Len(year_df)
    /\ pc' = "summarised"
    /\ UNCHANGED << remote, cache, pick, df, available_years, selected_year, year_df,
                    display_df, annual_summary, page >>

\* Lines 82-158.
Dashboard ==
    /\ pc = "summarised"
    /\ Len(year_df) > 0
    /\ display_df' = DisplayDf(year_df)
    /\ df' = AfterDisplayWrites(df, display_df')
    /\ page' = "charts"
    /\ pc' = "displayed"
    /\ UNCHANGED << remote, cache, pick, available_years, selected_year, year_df,
                    total_kwh, total_cost, avg_unit_cost, num_bills, annual_summary >>

\* Lines 201-202.
NoData ==
    /\ pc = "summarised"
    /\ Len(year_df) = 0
    /\ page' = "warning"
    /\ pc' = "done"
    /\ UNCHANGED << remote, cache, pick, df, available_years, selected_year, year_df,
                    total_kwh, total_cost, avg_unit_cost, num_bills, display_df,
                    annual_summary >>

\* Line 161.
ComparisonShown(years) == Len(years) > 1

\* Lines 160-199.
YearOverYear ==
    /\ pc = "displayed"
    /\ annual_summary' = IF ComparisonShown(available_years)
                         THEN [made |-> TRUE, rows |-> AnnualSummary(df.rows)]
                         ELSE NotMade
    /\ pc' = "done"
    /\ UNCHANGED << remote, cache, pick, df, available_years, selected_year, year_df,
                    total_kwh, total_cost, avg_unit_cost, num_bills, display_df, page >>

(***************************************************************************)
(* The user: picks one of the years the page offers, or reloads the page   *)
(* (a new session, whose picker has no value yet).  Either way the script  *)
(* runs again from the top.                                                *)
(***************************************************************************)
Rerun ==
    /\ pc = "done"
    /\ pick' \in 0..Len(available_years)
    /\ pc' = "start"
    /\ df' = None
    /\ available_years' = <<>>
    /\ selected_year' = NoneVal
    /\ year_df' = <<>>
    /\ total_kwh' = Zero
    /\ total_cost' = Zero
    /\ avg_unit_cost' = NaN
    /\ num_bills' = 0
    /\ display_df' = <<>>
    /\ annual_summary' = NotMade
    /\ page' = ""
    /\ UNCHANGED << remote, cache >>

(***************************************************************************)
(* The environment, between executions: the repository gets a new bill     *)
(* appended to the CSV, or the URL stops or starts answering.              *)
(***************************************************************************)
RemoteChanges ==
    /\ pc = "done"
    /\ \/ remote' = [remote EXCEPT !.ok = ~remote.ok]
       \/ /\ Len(remote.blob.rows) < MaxRows
          /\ \E r \in RowSet : remote' = [remote EXCEPT !.blob.rows = Append(@, r)]
    /\ UNCHANGED << cache, pick, pc, df, available_years, selected_year, year_df,
                    total_kwh, total_cost, avg_unit_cost, num_bills, display_df,
                    annual_summary, page >>

Next ==
    \/ Load
    \/ LoadFailed
    \/ SelectYear
    \/ YearSummary
    \/ Dashboard
    \/ NoData
    \/ YearOverYear
    \/ Rerun
    \/ RemoteChanges

Spec == Init /\ [][Next]_vars

(***************************************************************************)
(* What the properties are stated with: exact arithmetic over index sets   *)
(* of the loaded frame, independent of the order in which the program      *)
(* adds, and validity of a CSV file as the specification defines it.       *)
(***************************************************************************)
Summarised == pc \in {"summarised", "displayed", "done"} /\ df.ok
Selected == pc \in {"selected", "summarised", "displayed", "done"} /\ df.ok

\* The records of the frame whose year is y.
RecordsOfYear(y) == {i \in DOMAIN df.rows : df.rows[i].Year = IntVal(y)}

\* The records of the frame that match the selected year (none when the
\* selection is no year).
RecordsSelected ==
    IF selected_year.k = "int" THEN RecordsOfYear(selected_year.v) ELSE {}

\* The sum of the values present in column col over the records S.
RECURSIVE SumOver(_, _)
SumOver(S, col) ==
    IF S = {} THEN Fin(0, 1)
    ELSE LET i == CHOOSE j \in S : TRUE
             x == df.rows[i][col]
         IN  IF x.k = "nan" THEN SumOver(S \ {i}, col)
             ELSE FAdd(x, SumOver(S \ {i}, col))

\* The records of S whose unit cost is defined: energy is a number above 0
\* and the amount is a number.
Defined(S) ==
    {i \in S : /\ df.rows[i].kWh.k = "fin" /\ df.rows[i].kWh.n > 0
               /\ df.rows[i].Total.k = "fin"}

\* x is the quotient total / kwh of two finite numbers, kwh > 0.
IsQuotient(x, total, kwh) ==
    /\ x.k = "fin"
    /\ x.n * total.d * kwh.n = total.n * kwh.d * x.d

\* x is the arithmetic mean of total/kWh over the records S, S not empty.
RECURSIVE QuotientSum(_)
QuotientSum(S) ==
    IF S = {} THEN Fin(0, 1)
    ELSE LET i == CHOOSE j \in S : TRUE
             r == df.rows[i]
             q == Fin(r.Total.n * r.kWh.d, r.Total.d * r.kWh.n)
             rest == QuotientSum(S \ {i})
         IN  Fin(q.n * rest.d + rest.n * q.d, q.d * rest.d)

IsMeanOfDefined(x, S) ==
    IF Defined(S) = {} THEN x.k = "nan"
    ELSE /\ x.k = "fin"
         /\ x.n * QuotientSum(Defined(S)).d * Cardinality(Defined(S))
              = QuotientSum(Defined(S)).n * x.d

ValidDateText(c) ==
    /\ c.t = "ymd"
    /\ c.m \in 1..12
    /\ c.d \in 1..DaysInMonth(c.y, c.m)

ValidRow(r) == ValidDateText(r.Date) /\ r.kWh.t = "dec" /\ r.Total.t = "dec"

ValidBlob(b) ==
    /\ AllColumns \subseteq b.cols
    /\ \A i \in DOMAIN b.rows : ValidRow(b.rows[i])

(***************************************************************************)
(* C1: every derived record with energy above 0 has unit cost              *)
(* amount / energy, and every derived record with energy 0 has a unit      *)
(* cost that is an explicit undefined marker: no number, not infinite,     *)
(* not NaN.                                                                *)
(***************************************************************************)
C1_UnitCostPolicy ==
    df.ok =>
        \A i \in DOMAIN df.rows :
            LET r == df.rows[i]
            IN  /\ (r.kWh.k = "fin" /\ r.kWh.n > 0 /\ r.Total.k = "fin")
                      => IsQuotient(r.Unit_Cost, r.Total, r.kWh)
                /\ (r.kWh.k = "fin" /\ r.kWh.n = 0)
                      => r.Unit_Cost.k \notin {"fin", "pinf", "ninf", "nan"}

(***************************************************************************)
(* C2: the average unit cost of the selected year's records, and of each   *)
(* year's group in the annual summary, is the mean over exactly the        *)
(* records whose unit cost is defined, and undefined when there is none.   *)
(***************************************************************************)
C2_AverageExclusion ==
    /\ Summarised => IsMeanOfDefined(avg_unit_cost, RecordsSelected)
    /\ annual_summary.made =>
          \A j \in DOMAIN annual_summary.rows :
              IsMeanOfDefined(annual_summary.rows[j].Unit_Cost,
                              RecordsOfYear(annual_summary.rows[j].Year))

(***************************************************************************)
(* C3: when the body of the load step has just run on the file the URL     *)
(* returned, a dataset exists only if the fetch succeeded, the header has  *)
(* Date, kWh and Total and every row is valid; it then holds every row.    *)
(***************************************************************************)
C3_FailFast ==
    [][ (Load /\ ~cache.has) =>
            /\ df'.ok => (remote.ok /\ ValidBlob(remote.blob))
            /\ df'.ok => Len(df'.rows) = Len(remote.blob.rows) ]_vars

(***************************************************************************)
(* C4: a run whose fetch succeeds with a valid file yields the dataset     *)
(* derived from that file, whatever the earlier runs were.                 *)
(***************************************************************************)
C4_RunsIndependent ==
    (pc = "loaded" /\ remote.ok /\ ValidBlob(remote.blob))
        => (df.ok /\ df = LoadBody(remote))

(***************************************************************************)
(* C5: the year aggregate's total_kwh, total_cost and bill count are the   *)
(* sum of kWh, the sum of Total and the number of records over exactly     *)
(* the records of the frame whose year is the selected year.               *)
(***************************************************************************)
C5_AggregateConsistency ==
    Summarised =>
        /\ total_kwh = SumOver(RecordsSelected, "kWh")
        /\ total_cost = SumOver(RecordsSelected, "Total")
        /\ num_bills = Cardinality(RecordsSelected)

C5_Witness ==
    /\ Summarised
    /\ pc = "done"
    /\ Cardinality(RecordsSelected) >= 2
    /\ \E i \in DOMAIN df.rows : i \notin RecordsSelected
    /\ \E i \in RecordsSelected : df.rows[i].kWh = Fin(0, 1)

(***************************************************************************)
(* C6.  The years of the frame and the content an annual summary must      *)
(* have: one row per year, ascending, with the sums and the mean of the    *)
(* year's records.                                                         *)
(***************************************************************************)
YearsPresent == {df.rows[i].Year.v : i \in {j \in DOMAIN df.rows : df.rows[j].Year.k = "int"}}

MeanOver(S, col) ==
    LET present == {i \in S : df.rows[i][col].k # "nan"}
    IN  IF present = {} THEN NaN
        ELSE FDiv(SumOver(present, col), Fin(Cardinality(present), 1))

AnnualSummaryRight ==
    LET rows == annual_summary.rows
    IN  /\ {rows[j].Year : j \in DOMAIN rows} = YearsPresent
        /\ \A j \in 1..(Len(rows) - 1) : rows[j].Year < rows[j + 1].Year
        /\ \A j \in DOMAIN rows :
              /\ rows[j].kWh = SumOver(RecordsOfYear(rows[j].Year), "kWh")
              /\ rows[j].Total = SumOver(RecordsOfYear(rows[j].Year), "Total")
              /\ rows[j].Unit_Cost = MeanOver(RecordsOfYear(rows[j].Year), "Unit_Cost")

C7_YearCompleteness ==
    Selected =>
        /\ \A j \in DOMAIN available_years : available_years[j].k = "int"
        /\ {available_years[j].v : j \in DOMAIN available_years} = YearsPresent
        /\ \A j \in 1..(Len(available_years) - 1) :
              available_years[j].v < available_years[j + 1].v

(***************************************************************************)
(* C8: the selected year's records are exactly the records of that year,   *)
(* each once and as loaded, in non-decreasing date order; and the loaded   *)
(* frame has the rows in file order.                                       *)
(***************************************************************************)
DateBefore(a, b) ==
    a.y * 10000 + a.m * 100 + a.d <= b.y * 10000 + b.m * 100 + b.d

C8_ChronologicalOrder ==
    Selected =>
        /\ \A j \in 1..(Len(year_df) - 1) :
              DateBefore(year_df[j].Date, year_df[j + 1].Date)
        /\ \A j, k \in DOMAIN year_df : year_df[j].idx = year_df[k].idx => j = k
        /\ {year_df[j].idx : j \in DOMAIN year_df} = RecordsSelected
        /\ \A j \in DOMAIN year_df : year_df[j] = df.rows[year_df[j].idx]
        /\ \A i \in DOMAIN df.rows : df.rows[i].idx = i

C8_Witness ==
    /\ Selected
    /\ pc = "done"
    /\ Len(year_df) = 3
    /\ year_df[1].idx > year_df[2].idx
    /\ year_df[2].idx > year_df[3].idx

(***************************************************************************)
(* C9: when no record matches the selected year, the subset is empty, the  *)
(* sums and the count are 0, the average is undefined, and the run ends    *)
(* with the "no data" notice, never with the error page.                   *)
(***************************************************************************)
C9_EmptyYearIsNormal ==
    (Summarised /\ RecordsSelected = {}) =>
        /\ year_df = <<>>
        /\ total_kwh = Fin(0, 1)
        /\ total_cost = Fin(0, 1)
        /\ num_bills = 0
        /\ avg_unit_cost.k = "nan"
        /\ page # "error"
        /\ pc # "displayed"
        /\ pc = "done" => page = "warning"

C9_Witness ==
    /\ pc = "done"
    /\ df.ok
    /\ RecordsSelected = {}
    /\ page = "warning"

(***************************************************************************)
(* C10: year selection, the year summary, table formatting and the annual  *)
(* summary leave the loaded frame as it is, and none of them writes the    *)
(* cached dataset.                                                         *)
(***************************************************************************)
C10_QueriesDoNotMutate ==
    [][ /\ pc \in {"loaded", "selected", "summarised", "displayed"} => df' = df
        /\ pc # "start" => cache' = cache ]_vars

C10_Witness ==
    /\ pc = "done"
    /\ pick > 0
    /\ Len(display_df) >= 2
    /\ annual_summary.made

=============================================================================
